---- MODULE Spec2Model ----
(***************************************************************************)
(* Model of the Kroni Survival operations scripts:                         *)
(*   - backup_flow            (src/prefect/flows/backup_flow.py)           *)
(*   - backup_flow            (src/prefect/snapshot_flow.py)               *)
(*   - server_monitoring_flow (src/prefect/flows/server_monitoring_flow.py)*)
(*   - check_container_status (src/prefect/utils/server_utils.py)          *)
(*   - RemoteExecutor         (src/prefect/flows/remote_executor.py)       *)
(* One run of one flow per behaviour; `flow` says which.  Outcomes of the  *)
(* external tools (ssh, docker, tar, S3, Lightsail, HTTP) are inputs drawn *)
(* with \E at the step that consumes them.                                 *)
(***************************************************************************)
EXTENDS Integers, Sequences, FiniteSets, TLC

\* ------------------------------------------------------------------ bounds
\* largest number of snapshots one Lightsail list call returns in the model
MaxSnaps == 2

\* ------------------------------------------------------------ basic values
None == "None"

\* Names are sequences of characters so that Python's substring test
\* (`a in b`) and equality (`a == b`) are different relations.
\* MC stands for "minecraft-server"; MC2 has it as a prefix; WEB is unrelated.
MC == <<"m", "c">>
MC2 == <<"m", "c", "2">>
WEB == <<"w">>
ContainerNames == {MC, MC2, WEB}

\* Python: a in b, for strings
IsSubstr(a, b) ==
    \E i \in 1..(Len(b) - Len(a) + 1) : SubSeq(b, i, i + Len(a) - 1) = a

\* docker ps --filter name=<f> --format {{.Names}} : the names of the running
\* containers whose name matches the filter (docker matches substrings)
DockerPs(runningSet, f) == {n \in runningSet : IsSubstr(f, n)}

\* Python: name in stdout, stdout being the lines printed by docker ps
InStdout(name, lines) == \E l \in lines : IsSubstr(name, l)

\* Python truthiness of an optional string
Truthy(v) == v \notin {None, ""}

\* ------------------------------------------------ remote_executor.py
\* RemoteExecutor.check_docker_container: exit code and stdout of
\* `docker ps --filter name=<container_name>` run over the session
RE_check_docker_container(container_name, exit_code, stdout) ==
    IF exit_code # 0 THEN FALSE ELSE InStdout(container_name, stdout)

\* RemoteExecutor.docker_stop_container
RE_docker_stop_container(exit_code) == exit_code = 0

\* RemoteExecutor.docker_start_container
RE_docker_start_container(exit_code) == exit_code = 0

\* RemoteExecutor.create_backup: ls_stdout_missing says whether the stdout of
\* `ls -la <world_path>` contains "No such file or directory"
RE_create_backup(ls_stdout_missing, tar_exit) ==
    IF ls_stdout_missing THEN None
    ELSE IF tar_exit # 0 THEN None
    ELSE "remote_path"

\* RemoteExecutor.download_file: sftp.get raised or not
RE_download_file(sftp_ok) == sftp_ok

\* RemoteExecutor.remove_file
RE_remove_file(exit_code) == exit_code = 0

\* ------------------------------------------------ flows/backup_flow.py
\* The executor object: client is whether self._client holds a client, open
\* counts the sessions it has opened and not closed; raised is whether the
\* last method call raised.
NewExecutor == [client |-> FALSE, open |-> 0, raised |-> FALSE]

\* RemoteExecutor.connect: returns at once when a client is held; otherwise
\* opens a session, or logs and re-raises what paramiko raised
RE_connect(ex, ok) ==
    IF ex.client THEN [ex EXCEPT !.raised = FALSE]
    ELSE IF ok THEN [client |-> TRUE, open |-> ex.open + 1, raised |-> FALSE]
    ELSE [ex EXCEPT !.raised = TRUE]

\* RemoteExecutor.disconnect
RE_disconnect(ex) ==
    IF ex.client THEN [client |-> FALSE, open |-> ex.open - 1, raised |-> FALSE]
    ELSE [ex EXCEPT !.raised = FALSE]

\* RemoteExecutor.__enter__
RE_enter(ex, ok) == RE_connect(ex, ok)

\* variant: the session is released only when the block ends without exception
RE_exit_unless_exception(ex, exc_type) ==
    IF exc_type THEN ex ELSE RE_disconnect(ex)

\* RemoteExecutor.__exit__(exc_type, exc_val, exc_tb)
RE_exit(ex, exc_type) == RE_disconnect(ex)

\* RemoteExecutor.execute_command once the command has ended: its exit code,
\* or 1 when exec_command or reading the channel raised
RE_execute_command(raised_, exit_code) == IF raised_ THEN 1 ELSE exit_code

\* A task result: either a value or a raised exception
Ret(v) == [raised |-> FALSE, value |-> v]
Raise == [raised |-> TRUE, value |-> None]

\* download_backup, once the session is open: the path inside the temporary
\* directory, or an exception when the transfer failed
BF_download_backup(sftp_ok) ==
    IF RE_download_file(sftp_ok) THEN Ret("local_path") ELSE Raise

\* upload_backup_to_s3: file_exists is whether backup_path names an existing
\* file, s3_ok whether S3 accepts the object
BF_upload_backup_to_s3(backup_path, file_exists, s3_ok) ==
    IF ~Truthy(backup_path) THEN Raise
    ELSE Ret(file_exists /\ s3_ok)

\* outcome of the webhook POST: a 2xx answer, another answer, no answer
PostOutcomes == {"2xx", "non2xx", "neterr"}

\* thresholds of the health verdict, in tenths of a percent
CriticalAbove == 900
WarningAbove == 700

\* variant: the thresholds themselves count as exceeded
Health_inclusive(cpu_percent, memory_percent, disk_percent) ==
    IF cpu_percent >= CriticalAbove \/ memory_percent >= CriticalAbove
         \/ disk_percent >= CriticalAbove
    THEN "Critical"
    ELSE IF cpu_percent >= WarningAbove \/ memory_percent >= WarningAbove
              \/ disk_percent >= WarningAbove
    THEN "Warning"
    ELSE "Good"

\* send_metrics_to_discord, lines 253-262: the overall health
Health(cpu_percent, memory_percent, disk_percent) ==
    IF cpu_percent > CriticalAbove \/ memory_percent > CriticalAbove
         \/ disk_percent > CriticalAbove
    THEN "Critical"
    ELSE IF cpu_percent > WarningAbove \/ memory_percent > WarningAbove
              \/ disk_percent > WarningAbove
    THEN "Warning"
    ELSE "Good"

\* variant: raise_for_status() outside the try block
BF_send_discord_notification_unguarded(webhook_url, post) ==
    IF ~Truthy(webhook_url) THEN Ret(FALSE)
    ELSE IF post = "2xx" THEN Ret(TRUE)
    ELSE IF post = "non2xx" THEN Raise
    ELSE Ret(FALSE)

\* send_discord_notification (backup_flow.py)
BF_send_discord_notification(webhook_url, post) ==
    IF ~Truthy(webhook_url) THEN Ret(FALSE)
    ELSE IF post = "2xx" THEN Ret(TRUE)
    ELSE Ret(FALSE)

\* variant: the upload result left out of the condition
BF_status_ignoring_upload(backup_created, local_backup_path_, s3_success_) ==
    IF backup_created /\ Truthy(local_backup_path_)
    THEN "SUCCESS" ELSE "FAILURE"

\* status decided by backup_flow (backup_flow.py)
BF_status(backup_created, local_backup_path_, s3_success_) ==
    IF backup_created /\ Truthy(local_backup_path_) /\ s3_success_
    THEN "SUCCESS" ELSE "FAILURE"

\* variant: the restart placed at the end of the try block
BF_finally_start_on_return(was_running, pending_exception) ==
    was_running /\ ~pending_exception

\* the finally clause of backup_flow (backup_flow.py): is the start step run
BF_finally_start(was_running, pending_exception) == was_running

\* the guard of the stop step of backup_flow (backup_flow.py)
BF_stop_guard(was_running) == was_running

\* ------------------------------------------------ snapshot_flow.py
\* outcome of a local docker command: the binary cannot be launched, exit
\* code 0, or a non-zero exit code
DockerOutcomes == {"missing", "exit0", "exit1"}

\* check_server_status (snapshot_flow.py): check=True turns a non-zero exit
\* into CalledProcessError, which is caught; a launch failure is not
Snap_check_server_status(docker, stdout) ==
    IF docker = "missing" THEN Raise
    ELSE IF docker # "exit0" THEN Ret(FALSE)
    ELSE Ret(InStdout(MC, stdout))

\* stop_minecraft_server / start_minecraft_server (snapshot_flow.py)
Snap_stop_minecraft_server(docker) ==
    IF docker = "missing" THEN Ret(FALSE) ELSE Ret(docker = "exit0")

Snap_start_minecraft_server(docker) ==
    IF docker = "missing" THEN Ret(FALSE) ELSE Ret(docker = "exit0")

\* pathlib.Path has no attribute `paren`: evaluating the tar argument list
\* raises AttributeError before tar is launched
PathHasParen == FALSE

\* create_world_backup (snapshot_flow.py)
Snap_create_world_backup(world_exists) ==
    IF ~world_exists THEN None
    ELSE IF ~PathHasParen THEN None
    ELSE "backup_path"

\* upload_to_s3 (snapshot_flow.py)
Snap_upload_to_s3(backup_path, file_exists, s3_ok) ==
    IF ~Truthy(backup_path) THEN Ret(FALSE)
    ELSE Ret(file_exists /\ s3_ok)

\* boto3 validates keyword arguments against the service model: the second
\* create_disk_snapshot call passes diskSnapshotame and is rejected
AcceptsDiskSnapshotame == FALSE

\* create_lightsail_snapshots: client_ok, inst_ok, disk_ok are the outcomes of
\* boto3.client, create_instance_snapshot and the first create_disk_snapshot.
\* success is the returned flag, inst/disk what Lightsail was made to create,
\* disk_calls the number of create_disk_snapshot calls made.
create_lightsail_snapshots(client_ok, inst_ok, disk_ok) ==
    IF ~client_ok THEN
        [success |-> FALSE, inst |-> FALSE, disk |-> FALSE, disk_calls |-> 0]
    ELSE IF ~inst_ok THEN
        [success |-> FALSE, inst |-> FALSE, disk |-> FALSE, disk_calls |-> 0]
    ELSE IF ~disk_ok THEN
        [success |-> FALSE, inst |-> TRUE, disk |-> FALSE, disk_calls |-> 1]
    ELSE
        [success |-> AcceptsDiskSnapshotame, inst |-> TRUE, disk |-> TRUE,
         disk_calls |-> 2]

\* Time is counted in days.  Now is the day cleanup_old_snapshots runs.
Now == 100
\* DEFAULT_CONFIG["retention_days"]
RetentionDays == 30
\* creation days of the snapshots listed: 29, 30 and 31 days before Now
CreatedAts == {Now - 31, Now - 30, Now - 29}
OwnInstance == "kroni-survival-server"
OwnDisk == "kroni-survival-data"
Foreign == "other"

\* the progress of one cleanup_old_snapshots call: API calls made, names whose
\* deletion was requested, number counted, whether a call raised, and which
\* kind of call that was
PruneStart ==
    [calls |-> 0, requested |-> {}, deleted_count |-> 0, failed |-> FALSE,
     failed_on |-> "none"]

\* one Lightsail API call, a "list" or a "delete"; the fail_at-th call of the
\* run raises
ApiCall(st, fail_at, kind) ==
    [st EXCEPT !.calls = @ + 1,
               !.failed = (st.calls + 1 = fail_at),
               !.failed_on = IF st.calls + 1 = fail_at THEN kind ELSE @]

\* one `for snapshot in ...` loop of cleanup_old_snapshots, from index i
RECURSIVE PruneLoop(_, _, _, _, _, _, _)
PruneLoop(kind, snaps, i, owner, cutoff_date, fail_at, st) ==
    IF st.failed \/ i > Len(snaps) THEN st
    ELSE IF snaps[i].from = owner /\ snaps[i].createdAt < cutoff_date THEN
        LET called == ApiCall(st, fail_at, "delete")
            asked == [called EXCEPT !.requested = @ \cup {<<kind, i>>}]
        IN  IF asked.failed THEN asked
            ELSE PruneLoop(kind, snaps, i + 1, owner, cutoff_date, fail_at,
                           [asked EXCEPT !.deleted_count = @ + 1])
    ELSE PruneLoop(kind, snaps, i + 1, owner, cutoff_date, fail_at, st)

\* cleanup_old_snapshots: the two listings are what Lightsail returns; the
\* result carries the returned count and the deletions requested
cleanup_old_snapshots(inst_list, disk_list, instance_name, disk_name, retention_days, fail_at) ==
    LET cutoff_date == Now - retention_days
        listed1 == ApiCall(PruneStart, fail_at, "list")
        loop1 == PruneLoop("instance", inst_list, 1, instance_name,
                           cutoff_date, fail_at, listed1)
        listed2 == IF loop1.failed THEN loop1
                   ELSE ApiCall(loop1, fail_at, "list")
        loop2 == PruneLoop("disk", disk_list, 1, disk_name,
                           cutoff_date, fail_at, listed2)
    IN  [returned |-> IF loop2.failed THEN 0 ELSE loop2.deleted_count,
         requested |-> loop2.requested,
         failed |-> loop2.failed,
         failed_on |-> loop2.failed_on]

\* send_discord_notification (snapshot_flow.py)
Snap_send_discord_notification(webhook_url, post) ==
    IF ~Truthy(webhook_url) THEN Ret(FALSE)
    ELSE IF post = "2xx" THEN Ret(TRUE)
    ELSE Ret(FALSE)

\* status decided by backup_flow (snapshot_flow.py)
Snap_status(s3_success_, snapshot_success_) ==
    IF s3_success_ /\ snapshot_success_ THEN "SUCCESS"
    ELSE IF s3_success_ \/ snapshot_success_ THEN "PARTIAL SUCCESS"
    ELSE "FAILURE"

\* variant: the restart not guarded by server_was_running
Snap_finally_start_always(was_running, pending_exception) == TRUE

\* the finally clause of backup_flow (snapshot_flow.py)
Snap_finally_start(was_running, pending_exception) == was_running

\* the guard of the stop step of backup_flow (snapshot_flow.py)
Snap_stop_guard(was_running) == was_running

\* ------------------------------------------------ process environment
\* values an environment variable can have; "unset" is the absent variable
EnvValues == {"unset", "true", "TRUE", "false"}

\* os.environ.get(name, default)
EnvGet(v, default) == IF v = "unset" THEN default ELSE v

\* str.lower() on the values above
Lower(v) == IF v = "TRUE" THEN "true" ELSE v

\* variant: the flag compared without lower()
SimulatedMode_case_sensitive(v) == EnvGet(v, "") = "true"

\* os.environ.get("KRONI_SIMULATED_MODE", "").lower() == "true"
SimulatedMode(v) == Lower(EnvGet(v, "")) = "true"

\* ------------------------------------------------ utils/server_utils.py
Absent == "Absent"
\* ssh_config: None (given = FALSE) or a dict with some of the keys
SshConfigs ==
    {[given |-> FALSE, EC2_HOST |-> Absent, SSH_USER |-> Absent]}
    \cup [given : {TRUE},
          EC2_HOST : {Absent, "", "localhost", "remote"},
          SSH_USER : {Absent, "ec2-user"}]

\* Python truthiness of a dict argument: None and {} are false
DictTruthy(d) == d.given /\ (d.EC2_HOST # Absent \/ d.SSH_USER # Absent)

\* dict.get(key, default) on ssh_config
DictGet(v, default) == IF v = Absent THEN default ELSE v

\* outcome of launching ssh: the client is missing, the timeout expired, or
\* the exit code (255: ssh failed, 1: grep found nothing, 0: grep matched)
SshOutcomes == {"nossh", "timeout", "exit255", "exit1", "exit0"}

\* the result dict of run_ssh_command; no_ssh_in_stderr is whether stderr
\* contains "No such file or directory: 'ssh'"
SshResult(returncode, stdout, no_ssh) ==
    [raised |-> FALSE, returncode |-> returncode, stdout |-> stdout,
     success |-> (returncode = 0), no_ssh_in_stderr |-> no_ssh]
SshRaise ==
    [raised |-> TRUE, returncode |-> 0, stdout |-> {}, success |-> FALSE,
     no_ssh_in_stderr |-> FALSE]

\* variant: subprocess.TimeoutExpired is not caught
run_ssh_command_timeout_uncaught(ssh, stdout) ==
    CASE ssh = "nossh" -> SshResult(-1, {}, TRUE)
      [] ssh = "timeout" -> SshRaise
      [] ssh = "exit255" -> SshResult(255, {}, FALSE)
      [] ssh = "exit1" -> SshResult(1, {}, FALSE)
      [] OTHER -> SshResult(0, stdout, FALSE)

\* run_ssh_command: subprocess.run inside try; TimeoutExpired and every
\* other exception (the launch failing) give the synthetic result
run_ssh_command(ssh, stdout) ==
    CASE ssh = "nossh" -> SshResult(-1, {}, TRUE)
      [] ssh = "timeout" -> SshResult(-1, {}, FALSE)
      [] ssh = "exit255" -> SshResult(255, {}, FALSE)
      [] ssh = "exit1" -> SshResult(1, {}, FALSE)
      [] OTHER -> SshResult(0, stdout, FALSE)

\* any(name == container_name for name in container_names)
ExactlyListed(container_name, names) == container_name \in names

\* the result of check_container_status: raised or the value returned, and
\* the commands it ran, in order
Ccs(v, ran) == [raised |-> FALSE, value |-> v, ran |-> ran]
CcsRaise(ran) == [raised |-> TRUE, value |-> FALSE, ran |-> ran]

\* variant: the fallback answers "stopped" when its check does not complete
ccs_fallback_assume_stopped(container_name, sock, d2, names, ran) ==
    IF ~sock THEN Ccs(FALSE, ran)
    ELSE IF d2 = "exit0"
    THEN Ccs(ExactlyListed(container_name, names), ran \o <<"docker">>)
    ELSE Ccs(FALSE, ran \o <<"docker">>)

\* lines 172-204: the ssh client is missing; docker is run locally when the
\* socket exists, and everything but an answer with exit code 0 gives True
ccs_fallback(container_name, sock, d2, names, ran) ==
    IF ~sock THEN Ccs(TRUE, ran)
    ELSE IF d2 = "exit0"
    THEN Ccs(ExactlyListed(container_name, names), ran \o <<"docker">>)
    ELSE Ccs(TRUE, ran \o <<"docker">>)

\* check_container_status.  d1 is the outcome of the first local docker run
\* (lines 125 or 214), d2 of the fallback one (line 179), ssh of the ssh
\* launch; names are the running containers docker lists for the filter.
check_container_status(sim_env_, container_name, host, user, ssh_config, sock, d1, ssh, d2, names) ==
    IF SimulatedMode(sim_env_) THEN Ccs(TRUE, <<>>)
    ELSE
    LET cfg_host == IF DictTruthy(ssh_config)
                    THEN DictGet(ssh_config.EC2_HOST, None) ELSE None
        local_first == (host = "localhost" \/ cfg_host = "localhost") /\ sock
        ran1 == IF local_first THEN <<"docker">> ELSE <<>>
        host2 == IF DictTruthy(ssh_config)
                 THEN DictGet(ssh_config.EC2_HOST, host) ELSE host
        user2 == IF DictTruthy(ssh_config)
                 THEN DictGet(ssh_config.SSH_USER, user) ELSE user
        result == run_ssh_command(ssh, {n \in names : IsSubstr(container_name, n)})
    IN  IF local_first /\ d1 = "exit0"
        THEN Ccs(ExactlyListed(container_name, names), ran1)
        ELSE IF Truthy(host) \/ Truthy(cfg_host)
        THEN IF ~Truthy(host2) \/ ~Truthy(user2) THEN Ccs(FALSE, ran1)
             \* port is assigned only under `if ssh_config:`
             ELSE IF ~DictTruthy(ssh_config) THEN CcsRaise(ran1)
             ELSE IF result.no_ssh_in_stderr
             THEN ccs_fallback(container_name, sock, d2, names,
                               ran1 \o <<"ssh">>)
             ELSE Ccs(result.success /\ InStdout(container_name, result.stdout),
                      ran1 \o <<"ssh">>)
        ELSE IF d1 = "exit0"
             THEN Ccs(ExactlyListed(container_name, names), <<"docker">>)
             ELSE Ccs(FALSE, <<"docker">>)

\* ------------------------------------ flows/server_monitoring_flow.py
HealthUrl == "/api/v1/health"
SystemUrl == "/api/v1/system/metrics"
MinecraftUrl == "/api/v1/minecraft/metrics"

\* answers of the metrics API: no answer ("exc"), a non-200 status, or 200
\* with a body
McResponses == {"exc", "500", "200_running", "200_stopped", "200_badjson"}
SysResponses == {"exc", "500", "200_ok", "200_bad"}
HealthResponses == {"exc", "500", "200"}
SizeResponses == {"exc", "500", "200_size", "200_nosize", "200_badjson"}

\* percentages are counted in tenths of a percent, sizes in hundredths of GB
PctValues == {100, 950}
ApiData == [cpu : PctValues, mem : PctValues, disk : PctValues]
ApiWorldSize == 300
DefaultWorldSize == 1275

\* variant: the simulated early return left out
MF_check_server_status_no_sim(sim_env_, resp) ==
    [value |-> resp # "200_stopped", requests |-> <<MinecraftUrl>>]

\* check_server_status (server_monitoring_flow.py)
MF_check_server_status(sim_env_, resp) ==
    IF SimulatedMode(sim_env_) THEN [value |-> TRUE, requests |-> <<>>]
    ELSE [value |-> IF resp = "200_running" THEN TRUE
                    ELSE IF resp = "200_stopped" THEN FALSE
                    ELSE TRUE,
          requests |-> <<MinecraftUrl>>]

SimulatedMetrics ==
    [source |-> "simulated", cpu_percent |-> 221, memory_percent |-> 767,
     root_disk_percent |-> 138, error |-> FALSE, minecraft |-> TRUE]
DefaultMetrics ==
    [source |-> "default", cpu_percent |-> 0, memory_percent |-> 0,
     root_disk_percent |-> 0, error |-> TRUE, minecraft |-> FALSE]

\* get_system_metrics: both requests are made before either answer is read;
\* an exception anywhere in the try block yields the default schema
get_system_metrics(sim_env_, sys_resp, mc_resp, data) ==
    IF SimulatedMode(sim_env_)
    THEN [value |-> SimulatedMetrics, requests |-> <<>>]
    ELSE IF sys_resp = "exc"
    THEN [value |-> DefaultMetrics, requests |-> <<SystemUrl>>]
    ELSE IF mc_resp = "exc" \/ sys_resp # "200_ok" \/ mc_resp = "200_badjson"
    THEN [value |-> DefaultMetrics, requests |-> <<SystemUrl, MinecraftUrl>>]
    ELSE [value |-> [source |-> "api", cpu_percent |-> data.cpu,
                     memory_percent |-> data.mem,
                     root_disk_percent |-> data.disk, error |-> FALSE,
                     minecraft |-> (mc_resp = "200_running")],
          requests |-> <<SystemUrl, MinecraftUrl>>]

\* variant: the simulated early return left out
get_world_size_no_sim(sim_env_, resp) ==
    [value |-> IF resp = "200_size" THEN ApiWorldSize ELSE DefaultWorldSize,
     requests |-> <<MinecraftUrl>>]

\* get_world_size
get_world_size(sim_env_, resp) ==
    IF SimulatedMode(sim_env_)
    THEN [value |-> DefaultWorldSize, requests |-> <<>>]
    ELSE [value |-> IF resp = "200_size" THEN ApiWorldSize
                    ELSE DefaultWorldSize,
          requests |-> <<MinecraftUrl>>]

\* variant: raise_for_status() outside the try block
send_metrics_to_discord_unguarded(webhook_url, post) ==
    IF ~Truthy(webhook_url) THEN Ret(FALSE)
    ELSE IF post = "2xx" THEN Ret(TRUE)
    ELSE IF post = "non2xx" THEN Raise
    ELSE Ret(FALSE)

\* send_metrics_to_discord: every metrics value of the model has a "system"
\* part with numeric percentages, so formatting does not fail
send_metrics_to_discord(webhook_url, post) ==
    IF ~Truthy(webhook_url) THEN Ret(FALSE)
    ELSE IF post = "2xx" THEN Ret(TRUE)
    ELSE Ret(FALSE)

\* os.environ.get("DISCORD_WEBHOOK_ENABLED", "true").lower() == "true"
WebhookEnabled(v) == Lower(EnvGet(v, "true")) = "true"

\* `docker ps | grep <name>` over ssh ends with grep's exit code: 0 when a
\* line matched and 1 when none did
GrepExit(ssh, matched) ==
    /\ ssh = "exit0" => matched # {}
    /\ ssh = "exit1" => matched = {}

\* commands run inside one with-block
MaxCommands == 2

\* ------------------------------------------------------ unit conversions
\* variant: decimal gigabytes
BytesPerGB_decimal == 1000 * 1000 * 1000

\* the divisors written in get_system_metrics and get_directory_size
BytesPerMB == 1024 * 1024
BytesPerGB == 1024 * 1024 * 1024

\* Python's round(n / d, 2), in hundredths: n / d is exact for these
\* divisors, and round() goes to the nearest hundredth, to the even one on
\* a tie
Round2(n, d) ==
    LET q == (100 * n) \div d
        r == (100 * n) % d
    IN IF r < d - r THEN q
       ELSE IF r > d - r THEN q + 1
       ELSE IF q % 2 = 0 THEN q ELSE q + 1

\* byte counts: around the rounding steps of both units, on ties, and where
\* binary and decimal units differ
ByteCounts ==
    {0, 1, 5242, 5243, 131072, 393216, 1048576, 1500000, 5200000, 5368709,
     5368710, 10737418, 14000000}

\* get_system_metrics, lines 120-124: the memory field in MB and the root
\* disk field in GB; get_directory_size, lines 274-276
Conversions(b) ==
    [memory_mb |-> Round2(b, BytesPerMB),
     root_disk_gb |-> Round2(b, BytesPerGB),
     directory_gb |-> Round2(b, BytesPerGB)]

\* ---------------------------------------------------- health classification
\* percentages on and next to both thresholds, in tenths of a percent
HealthPcts == {0, 700, 701, 900, 901}
HealthInputs ==
    [cpu : HealthPcts, mem : HealthPcts, disk : HealthPcts,
     server_running : BOOLEAN]
Red == 15548997
Yellow == 16776960
Green == 5763719

\* send_metrics_to_discord, lines 253-262: the colour of the embed
Color(cpu_percent, memory_percent, disk_percent) ==
    IF cpu_percent > CriticalAbove \/ memory_percent > CriticalAbove
         \/ disk_percent > CriticalAbove
    THEN Red
    ELSE IF cpu_percent > WarningAbove \/ memory_percent > WarningAbove
              \/ disk_percent > WarningAbove
    THEN Yellow
    ELSE Green

\* ------------------------------------------------------- config loaders
\* Lines are sequences of characters, as names are.  K, V and x stand for
\* letters; the lines cover blank and whitespace-only lines, comments (also
\* indented, also containing =), pairs (also with = in the value, with
\* spaces around key and value, with an empty key or value) and a line
\* without =.
ConfigLines ==
    { <<>>, <<" ">>, <<"#", "K", "=", "V">>, <<" ", "#", "K">>,
      <<"K", "=", "V">>, <<"K", "=", "V", "=", "x">>,
      <<" ", "K", " ", "=", " ", "V", " ">>, <<"K">>, <<"=", "V">>,
      <<"K", "=">>, <<"x", "=", "V">> }
MaxLines == 2
ConfigFiles ==
    {[exists |-> FALSE, lines |-> <<>>]}
    \cup [exists : {TRUE},
          lines : UNION {[1..k -> ConfigLines] : k \in 0..MaxLines}]

\* str.strip() for lines whose only whitespace is the blank
RECURSIVE LStrip(_)
LStrip(l) == IF l # <<>> /\ Head(l) = " " THEN LStrip(Tail(l)) ELSE l
RECURSIVE RStrip(_)
RStrip(l) ==
    IF l # <<>> /\ l[Len(l)] = " " THEN RStrip(SubSeq(l, 1, Len(l) - 1)) ELSE l
Strip(l) == RStrip(LStrip(l))

\* "=" in line
HasEq(l) == \E i \in DOMAIN l : l[i] = "="

\* variant: line.rsplit("=", 1), the split at the last = sign
SplitLast(l) ==
    LET i == CHOOSE i \in DOMAIN l :
                 l[i] = "=" /\ \A j \in DOMAIN l : j > i => l[j] # "="
    IN <<SubSeq(l, 1, i - 1), SubSeq(l, i + 1, Len(l))>>

\* line.split("=", 1): the parts before and after the first = sign
Split1(l) ==
    LET i == CHOOSE i \in DOMAIN l :
                 l[i] = "=" /\ \A j \in DOMAIN l : j < i => l[j] # "="
    IN <<SubSeq(l, 1, i - 1), SubSeq(l, i + 1, Len(l))>>

\* config[key] = value on a dict kept as a set of <<key, value>> pairs
DictPut(config, key, value) ==
    {p \in config : p[1] # key} \cup {<<key, value>>}

\* the loop over the lines of the file, common to both loaders; strip_kv is
\* whether key and value are stripped (load_config) or not (get_ec2_config)
RECURSIVE LoadLines(_, _, _)
LoadLines(lines, config, strip_kv) ==
    IF lines = <<>> THEN config
    ELSE LET line == Strip(Head(lines))
             kv == Split1(line)
         IN IF line = <<>> \/ Head(line) = "#" THEN
                LoadLines(Tail(lines), config, strip_kv)
            ELSE IF HasEq(line) THEN
                LoadLines(Tail(lines),
                          IF strip_kv
                          THEN DictPut(config, Strip(kv[1]), Strip(kv[2]))
                          ELSE DictPut(config, kv[1], kv[2]),
                          strip_kv)
            ELSE LoadLines(Tail(lines), config, strip_kv)

\* get_ec2_config (utils/server_utils.py): {} when the file does not exist
get_ec2_config(file) ==
    IF file.exists THEN LoadLines(file.lines, {}, FALSE) ELSE {}

\* load_config (bin/config_check.py): {} when opening the file raises
load_config(file) ==
    IF file.exists THEN LoadLines(file.lines, {}, TRUE) ELSE {}

\* how many times the loaders are called on the file
MaxLoads == 2

\* ------------------------------------------------------------------ state
VARIABLES
    flow,               \* which entry point this behaviour runs
    pc,                 \* position of the run
    exc,                \* an exception is propagating out of the try block
    calls,              \* the steps invoked so far with how each ended, in order
    running,            \* names of the containers docker reports as running
    remote_archive,     \* an archive file exists on the Minecraft host
    local_file,         \* the local archive file exists
    s3_object,          \* the archive was stored in the bucket
    webhook_url,        \* cfg["discord_webhook_url"]
    instance_snapshots, \* what get_instance_snapshots lists
    disk_snapshots,     \* what get_disk_snapshots lists
    server_was_running, backup_path, local_backup_path, s3_success,
    snapshot_success, deleted_snapshots,    \* locals of backup_flow
    notified,           \* the status handed to the notifier, None before
    notif,              \* what the notifier returned
    delivery,           \* outcome of the webhook POST, "none" when none was made
    retval,             \* the value of the pending or completed return
    created,            \* result of create_lightsail_snapshots
    prune,              \* result of cleanup_old_snapshots
    sim_env,            \* KRONI_SIMULATED_MODE
    webhook_enabled_env,\* DISCORD_WEBHOOK_ENABLED
    api_requests,       \* requests sent to the metrics API, in order
    server_running, metrics, world_size,    \* locals of server_monitoring_flow
    ccs_args,           \* host, user, ssh_config given to check_container_status
    sock_exists,        \* /var/run/docker.sock exists
    ccs,                \* result of check_container_status
    ccs_in,             \* outcomes of the commands check_container_status ran
    ssh_result,         \* what run_ssh_command returned
    executor,           \* the RemoteExecutor of the with-block
    results,            \* exit codes execute_command returned, in order
    hangs,              \* the remote command in flight never completes
    config_file,        \* the configuration file: whether it exists, its lines
    configs,            \* the mappings the config loaders returned, in order
    byte_count,         \* a byte count reported to the metrics collector
    converted,          \* the MB and GB fields computed from byte_count
    health_in,          \* percentages and server state given to the notifier
    health              \* the health send_metrics_to_discord derived

orchVars == <<flow, pc, exc, calls, running, remote_archive, local_file,
              s3_object, webhook_url, instance_snapshots, disk_snapshots,
              server_was_running, backup_path, local_backup_path, s3_success,
              snapshot_success, deleted_snapshots, notified, notif, delivery,
              retval, created, prune>>

InstRecs == [from : {OwnInstance, Foreign}, createdAt : CreatedAts]
DiskRecs == [from : {OwnDisk, Foreign}, createdAt : CreatedAts]
InstListings == UNION {[1..k -> InstRecs] : k \in 0..MaxSnaps}
DiskListings == UNION {[1..k -> DiskRecs] : k \in 0..MaxSnaps}

\* the listings a run of the snapshot flow meets: an old and a recent
\* snapshot of the configured resource, or two old ones
FlowInstListings ==
    { <<[from |-> OwnInstance, createdAt |-> Now - 31],
        [from |-> OwnInstance, createdAt |-> Now - 29]>>,
      <<[from |-> OwnInstance, createdAt |-> Now - 31],
        [from |-> OwnInstance, createdAt |-> Now - 31]>> }
FlowDiskListings ==
    { <<[from |-> OwnDisk, createdAt |-> Now - 31],
        [from |-> Foreign, createdAt |-> Now - 31]>> }

otherVars == <<sim_env, webhook_enabled_env, api_requests, server_running,
               metrics, world_size, ccs_args, sock_exists, ccs>>

\* state of the calls made on their own: run_ssh_command, and a with-block
\* over a RemoteExecutor
callVars == <<ccs_in, ssh_result, executor, results, hangs>>

\* state of the functions applied on their own: the config loaders, the
\* unit conversions, the health classification
fnVars == <<config_file, configs, byte_count, converted, health_in, health>>

\* what the monitoring flow and the status resolver leave alone
orchLocals == <<exc, remote_archive, local_file, s3_object, instance_snapshots,
                disk_snapshots, server_was_running, backup_path,
                local_backup_path, s3_success, snapshot_success,
                deleted_snapshots, created, prune>>

NoMetrics ==
    [source |-> "none", cpu_percent |-> 0, memory_percent |-> 0,
     root_disk_percent |-> 0, error |-> FALSE, minecraft |-> FALSE]
NoCcs == [raised |-> FALSE, value |-> FALSE, ran |-> <<>>]
NoArgs == [host |-> None, user |-> None,
           ssh_config |-> [given |-> FALSE, EC2_HOST |-> Absent,
                           SSH_USER |-> Absent]]
CcsArgs == [host : {None, "", "localhost", "remote"},
            user : {None, "ec2-user"},
            ssh_config : SshConfigs]

NoCreated == [success |-> FALSE, inst |-> FALSE, disk |-> FALSE, disk_calls |-> 0]
NoPrune == [returned |-> 0, requested |-> {}, failed |-> FALSE,
            failed_on |-> "none"]
NoNotif == [raised |-> FALSE, value |-> FALSE]

OrchInit ==
    /\ flow \in {"backup", "snapshot", "prune", "monitor", "status", "ssh",
                 "session", "config", "convert", "health"}
    /\ pc = CASE flow \in {"prune", "status", "ssh", "config", "convert",
                           "health"} -> "call"
              [] flow = "monitor" -> "health"
              [] flow = "session" -> "enter"
              [] OTHER -> "check"
    /\ exc = FALSE
    /\ calls = <<>>
    /\ running \in (IF flow \in {"prune", "monitor", "session", "config",
                                  "convert", "health"} THEN {{}}
                    ELSE SUBSET ContainerNames)
    /\ remote_archive = FALSE
    /\ local_file = FALSE
    /\ s3_object = FALSE
    /\ webhook_url \in (IF flow \in {"prune", "status", "ssh", "session",
                                      "config", "convert"}
                        THEN {""}
                        ELSE {"", "url"})
    /\ instance_snapshots \in
         (CASE flow = "prune" -> InstListings
            [] flow = "snapshot" -> FlowInstListings
            [] OTHER -> {<<>>})
    /\ disk_snapshots \in
         (CASE flow = "prune" -> DiskListings
            [] flow = "snapshot" -> FlowDiskListings
            [] OTHER -> {<<>>})
    /\ server_was_running = FALSE
    /\ backup_path = None
    /\ local_backup_path = None
    /\ s3_success = FALSE
    /\ snapshot_success = FALSE
    /\ deleted_snapshots = 0
    /\ notified = None
    /\ notif = NoNotif
    /\ delivery = "none"
    /\ retval = None
    /\ created = NoCreated
    /\ prune = NoPrune

OtherInit ==
    /\ sim_env \in (IF flow \in {"monitor", "status"} THEN EnvValues
                    ELSE {"unset"})
    /\ webhook_enabled_env \in (IF flow = "monitor" THEN EnvValues
                                ELSE {"unset"})
    /\ api_requests = <<>>
    /\ server_running = FALSE
    /\ metrics = NoMetrics
    /\ world_size = 0
    /\ ccs_args \in (IF flow = "status" THEN CcsArgs ELSE {NoArgs})
    /\ sock_exists \in (IF flow = "status" THEN BOOLEAN ELSE {FALSE})
    /\ ccs = NoCcs

NoCcsIn == [d1 |-> "none", ssh |-> "none", d2 |-> "none"]
NoSshResult == SshResult(0, {}, FALSE)
CallInit ==
    /\ ccs_in = NoCcsIn
    /\ ssh_result = NoSshResult
    /\ executor = NewExecutor
    /\ results = <<>>
    /\ hangs \in (IF flow \in {"ssh", "session"} THEN BOOLEAN ELSE {FALSE})

NoFile == [exists |-> FALSE, lines |-> <<>>]
NoConverted == [memory_mb |-> 0, root_disk_gb |-> 0, directory_gb |-> 0]
NoHealthIn == [cpu |-> 0, mem |-> 0, disk |-> 0, server_running |-> FALSE]
NoHealth == [built |-> FALSE, health |-> "none", color |-> 0,
             server_status |-> "none"]
FnInit ==
    /\ config_file \in (IF flow = "config" THEN ConfigFiles ELSE {NoFile})
    /\ configs = <<>>
    /\ byte_count \in (IF flow = "convert" THEN ByteCounts ELSE {0})
    /\ converted = NoConverted
    /\ health_in \in (IF flow = "health" THEN HealthInputs ELSE {NoHealthIn})
    /\ health = NoHealth

\* how a step that ran over a RemoteExecutor session ended: the session could
\* not be opened ("noconn", connect() raised), or the command's exit code
RemoteOutcome(conn, exit_code) ==
    IF ~conn THEN "noconn" ELSE IF exit_code = 0 THEN "ok" ELSE "fail"

\* how a task that produced the result r ended
TaskOutcome(r) ==
    IF r.raised THEN "raised" ELSE IF r.value THEN "ok" ELSE "fail"

\* --------------------------------------- backup_flow (flows/backup_flow.py)
\* Every task opens its own RemoteExecutor session in a with-block; conn is
\* whether connect() succeeds (it re-raises when it does not).

\* line 134: server_was_running = check_server_status(host), outside the try
BF_Check ==
    /\ flow = "backup" /\ pc = "check"
    /\ \E conn \in BOOLEAN, exit_code \in {0, 1} :
        /\ calls' = Append(calls, <<"check", RemoteOutcome(conn, exit_code)>>)
        /\ IF ~conn
           THEN /\ pc' = "raised" /\ exc' = TRUE
                /\ UNCHANGED server_was_running
           ELSE /\ server_was_running' =
                     RE_check_docker_container(MC, exit_code, DockerPs(running, MC))
                /\ pc' = "stop" /\ UNCHANGED exc
    /\ UNCHANGED otherVars
    /\ UNCHANGED callVars
    /\ UNCHANGED fnVars
    /\ UNCHANGED <<flow, running, remote_archive, local_file, s3_object,
                   webhook_url, instance_snapshots, disk_snapshots, backup_path,
                   local_backup_path, s3_success, snapshot_success,
                   deleted_snapshots, notified, notif, delivery, retval, created, prune>>

\* lines 138-139: if server_was_running: stop_minecraft_server(host)
BF_Stop ==
    /\ flow = "backup" /\ pc = "stop"
    /\ \E conn \in BOOLEAN, exit_code \in {0, 1} :
        IF BF_stop_guard(server_was_running)
        THEN /\ calls' = Append(calls, <<"stop", RemoteOutcome(conn, exit_code)>>)
             /\ IF ~conn
                THEN /\ exc' = TRUE /\ pc' = "finally" /\ UNCHANGED running
                ELSE /\ running' = IF RE_docker_stop_container(exit_code)
                                   THEN running \ {MC} ELSE running
                     /\ pc' = "archive" /\ UNCHANGED exc
        ELSE /\ pc' = "archive" /\ UNCHANGED <<calls, exc, running>>
    /\ UNCHANGED otherVars
    /\ UNCHANGED callVars
    /\ UNCHANGED fnVars
    /\ UNCHANGED <<flow, remote_archive, local_file, s3_object, webhook_url,
                   instance_snapshots, disk_snapshots, server_was_running,
                   backup_path, local_backup_path, s3_success, snapshot_success,
                   deleted_snapshots, notified, notif, delivery, retval, created, prune>>

\* lines 142-143: remote_backup_path = create_world_backup(host, world_path)
\* A failing tar may or may not leave a partial archive behind.
BF_Archive ==
    /\ flow = "backup" /\ pc = "archive"
    /\ \E conn \in BOOLEAN, ls_missing \in BOOLEAN, tar_exit \in {0, 1},
          leftover \in BOOLEAN :
        /\ calls' = Append(calls, <<"archive",
                 IF ~conn THEN "noconn"
                 ELSE IF RE_create_backup(ls_missing, tar_exit) = None
                 THEN "fail" ELSE "ok">>)
        /\ IF ~conn
           THEN /\ exc' = TRUE /\ pc' = "finally"
                /\ UNCHANGED <<backup_path, remote_archive>>
           ELSE /\ backup_path' = RE_create_backup(ls_missing, tar_exit)
                /\ remote_archive' =
                     IF ls_missing THEN FALSE
                     ELSE IF tar_exit = 0 THEN TRUE ELSE leftover
                /\ pc' = "transfer" /\ UNCHANGED exc
    /\ UNCHANGED otherVars
    /\ UNCHANGED callVars
    /\ UNCHANGED fnVars
    /\ UNCHANGED <<flow, running, local_file, s3_object, webhook_url,
                   instance_snapshots, disk_snapshots, server_was_running,
                   local_backup_path, s3_success, snapshot_success,
                   deleted_snapshots, notified, notif, delivery, retval, created, prune>>

\* lines 146-148: if backup_created: local_backup_path = download_backup(..)
\* download_backup returns from inside `with tempfile.TemporaryDirectory()`,
\* so the directory holding the downloaded file is removed on the way out.
BF_Transfer ==
    /\ flow = "backup" /\ pc = "transfer"
    /\ \E conn \in BOOLEAN, sftp_ok \in BOOLEAN :
        IF backup_path # None
        THEN LET r == IF ~conn THEN Raise ELSE BF_download_backup(sftp_ok)
             IN /\ calls' = Append(calls, <<"transfer",
                        IF ~conn THEN "noconn"
                        ELSE IF r.raised THEN "raised" ELSE "ok">>)
                /\ local_file' = FALSE
                /\ IF r.raised
                   THEN /\ exc' = TRUE /\ pc' = "finally"
                        /\ UNCHANGED local_backup_path
                   ELSE /\ local_backup_path' = r.value
                        /\ pc' = "upload" /\ UNCHANGED exc
        ELSE /\ pc' = "upload"
             /\ UNCHANGED <<calls, local_file, exc, local_backup_path>>
    /\ UNCHANGED otherVars
    /\ UNCHANGED callVars
    /\ UNCHANGED fnVars
    /\ UNCHANGED <<flow, running, remote_archive, s3_object, webhook_url,
                   instance_snapshots, disk_snapshots, server_was_running,
                   backup_path, s3_success, snapshot_success,
                   deleted_snapshots, notified, notif, delivery, retval, created, prune>>

\* lines 151-153: if local_backup_path: s3_success = upload_backup_to_s3(..)
BF_Upload ==
    /\ flow = "backup" /\ pc = "upload"
    /\ \E s3_ok \in BOOLEAN :
        IF Truthy(local_backup_path)
        THEN LET r == BF_upload_backup_to_s3(local_backup_path, local_file, s3_ok)
             IN /\ calls' = Append(calls, <<"upload", TaskOutcome(r)>>)
                /\ IF r.raised
                   THEN /\ exc' = TRUE /\ pc' = "finally"
                        /\ UNCHANGED <<s3_success, s3_object>>
                   ELSE /\ s3_success' = r.value /\ s3_object' = r.value
                        /\ pc' = "cleanup" /\ UNCHANGED exc
        ELSE /\ pc' = "notify"
             /\ UNCHANGED <<calls, exc, s3_success, s3_object>>
    /\ UNCHANGED otherVars
    /\ UNCHANGED callVars
    /\ UNCHANGED fnVars
    /\ UNCHANGED <<flow, running, remote_archive, local_file, webhook_url,
                   instance_snapshots, disk_snapshots, server_was_running,
                   backup_path, local_backup_path, snapshot_success,
                   deleted_snapshots, notified, notif, delivery, retval, created, prune>>

\* line 156 (inside `if local_backup_path:`): cleanup_remote_backup(..)
BF_Cleanup ==
    /\ flow = "backup" /\ pc = "cleanup"
    /\ \E conn \in BOOLEAN, exit_code \in {0, 1} :
        /\ calls' = Append(calls, <<"cleanup_remote",
                                    RemoteOutcome(conn, exit_code)>>)
        /\ IF ~conn
           THEN /\ exc' = TRUE /\ pc' = "finally" /\ UNCHANGED remote_archive
           ELSE /\ remote_archive' = IF RE_remove_file(exit_code)
                                     THEN FALSE ELSE remote_archive
                /\ pc' = "notify" /\ UNCHANGED exc
    /\ UNCHANGED otherVars
    /\ UNCHANGED callVars
    /\ UNCHANGED fnVars
    /\ UNCHANGED <<flow, running, local_file, s3_object, webhook_url,
                   instance_snapshots, disk_snapshots, server_was_running,
                   backup_path, local_backup_path, s3_success, snapshot_success,
                   deleted_snapshots, notified, notif, delivery, retval, created, prune>>

\* lines 159-176: decide status, send_discord_notification, return status
BF_Notify ==
    /\ flow = "backup" /\ pc = "notify"
    /\ \E post \in PostOutcomes :
        LET st == BF_status(backup_path # None, local_backup_path, s3_success)
            r == BF_send_discord_notification(webhook_url, post)
        IN /\ calls' = Append(calls, <<"notify", TaskOutcome(r)>>)
           /\ notified' = st
           /\ notif' = r
           /\ delivery' = IF Truthy(webhook_url) THEN post ELSE "none"
           /\ pc' = "finally"
           /\ IF r.raised
              THEN exc' = TRUE /\ UNCHANGED retval
              ELSE retval' = st /\ UNCHANGED exc
    /\ UNCHANGED otherVars
    /\ UNCHANGED callVars
    /\ UNCHANGED fnVars
    /\ UNCHANGED <<flow, running, remote_archive, local_file, s3_object,
                   webhook_url, instance_snapshots, disk_snapshots,
                   server_was_running, backup_path, local_backup_path,
                   s3_success, snapshot_success, deleted_snapshots, created,
                   prune>>

\* variant: a start step that fails is tried a second time
BF_Finally_retry ==
    /\ flow = "backup" /\ pc = "finally"
    /\ \E conn \in BOOLEAN, exit_code \in {0, 1} :
        IF BF_finally_start(server_was_running, exc)
        THEN /\ calls' = Append(calls, <<"start", RemoteOutcome(conn, exit_code)>>)
             /\ IF ~conn
                THEN /\ exc' = TRUE /\ pc' = "raised" /\ retval' = None
                     /\ UNCHANGED running
                ELSE /\ running' = IF RE_docker_start_container(exit_code)
                                   THEN running \cup {MC} ELSE running
                     /\ pc' = IF exit_code # 0 /\ ~(\E i \in DOMAIN calls :
                                                       calls[i][1] = "start")
                              THEN "finally"
                              ELSE IF exc THEN "raised" ELSE "returned"
                     /\ UNCHANGED <<exc, retval>>
        ELSE /\ pc' = IF exc THEN "raised" ELSE "returned"
             /\ UNCHANGED <<calls, exc, running, retval>>
    /\ UNCHANGED otherVars
    /\ UNCHANGED callVars
    /\ UNCHANGED fnVars
    /\ UNCHANGED <<flow, remote_archive, local_file, s3_object, webhook_url,
                   instance_snapshots, disk_snapshots, server_was_running,
                   backup_path, local_backup_path, s3_success, snapshot_success,
                   deleted_snapshots, notified, notif, delivery, created,
                   prune>>

\* lines 178-181: finally: if server_was_running: start_minecraft_server(..)
\* An exception raised by the start step replaces the pending return.
BF_Finally ==
    /\ flow = "backup" /\ pc = "finally"
    /\ \E conn \in BOOLEAN, exit_code \in {0, 1} :
        IF BF_finally_start(server_was_running, exc)
        THEN /\ calls' = Append(calls, <<"start", RemoteOutcome(conn, exit_code)>>)
             /\ IF ~conn
                THEN /\ exc' = TRUE /\ pc' = "raised" /\ retval' = None
                     /\ UNCHANGED running
                ELSE /\ running' = IF RE_docker_start_container(exit_code)
                                   THEN running \cup {MC} ELSE running
                     /\ pc' = IF exc THEN "raised" ELSE "returned"
                     /\ UNCHANGED <<exc, retval>>
        ELSE /\ pc' = IF exc THEN "raised" ELSE "returned"
             /\ UNCHANGED <<calls, exc, running, retval>>
    /\ UNCHANGED otherVars
    /\ UNCHANGED callVars
    /\ UNCHANGED fnVars
    /\ UNCHANGED <<flow, remote_archive, local_file, s3_object, webhook_url,
                   instance_snapshots, disk_snapshots, server_was_running,
                   backup_path, local_backup_path, s3_success, snapshot_success,
                   deleted_snapshots, notified, notif, delivery, created,
                   prune>>

\* --------------------------------------------- backup_flow (snapshot_flow.py)
\* line 298: server_was_running = check_server_status(), outside the try
Snap_Check ==
    /\ flow = "snapshot" /\ pc = "check"
    /\ \E docker \in DockerOutcomes :
        LET r == Snap_check_server_status(docker, DockerPs(running, MC))
        IN /\ calls' = Append(calls, <<"check", TaskOutcome(r)>>)
           /\ IF r.raised
              THEN /\ pc' = "raised" /\ exc' = TRUE
                   /\ UNCHANGED server_was_running
              ELSE /\ server_was_running' = r.value
                   /\ pc' = "stop" /\ UNCHANGED exc
    /\ UNCHANGED otherVars
    /\ UNCHANGED callVars
    /\ UNCHANGED fnVars
    /\ UNCHANGED <<flow, running, remote_archive, local_file, s3_object,
                   webhook_url, instance_snapshots, disk_snapshots, backup_path,
                   local_backup_path, s3_success, snapshot_success,
                   deleted_snapshots, notified, notif, delivery, retval, created, prune>>

\* lines 302-303: if server_was_running: stop_minecraft_server()
Snap_Stop ==
    /\ flow = "snapshot" /\ pc = "stop"
    /\ \E docker \in DockerOutcomes :
        IF Snap_stop_guard(server_was_running)
        THEN LET r == Snap_stop_minecraft_server(docker)
             IN /\ calls' = Append(calls, <<"stop", TaskOutcome(r)>>)
                /\ running' = IF docker = "exit0" THEN running \ {MC}
                              ELSE running
                /\ IF r.raised
                   THEN exc' = TRUE /\ pc' = "finally"
                   ELSE pc' = "archive" /\ UNCHANGED exc
        ELSE /\ pc' = "archive" /\ UNCHANGED <<calls, exc, running>>
    /\ UNCHANGED otherVars
    /\ UNCHANGED callVars
    /\ UNCHANGED fnVars
    /\ UNCHANGED <<flow, remote_archive, local_file, s3_object, webhook_url,
                   instance_snapshots, disk_snapshots, server_was_running,
                   backup_path, local_backup_path, s3_success, snapshot_success,
                   deleted_snapshots, notified, notif, delivery, retval, created, prune>>

\* lines 306-307: backup_path = create_world_backup(world_path).  The
\* temporary directory of create_world_backup is gone when it returns.
Snap_Archive ==
    /\ flow = "snapshot" /\ pc = "archive"
    /\ \E world_exists \in BOOLEAN :
        /\ calls' = Append(calls, <<"archive",
                 IF Snap_create_world_backup(world_exists) = None
                 THEN "fail" ELSE "ok">>)
        /\ backup_path' = Snap_create_world_backup(world_exists)
        /\ local_file' = FALSE
        /\ pc' = "upload"
    /\ UNCHANGED otherVars
    /\ UNCHANGED callVars
    /\ UNCHANGED fnVars
    /\ UNCHANGED <<flow, exc, running, remote_archive, s3_object, webhook_url,
                   instance_snapshots, disk_snapshots, server_was_running,
                   local_backup_path, s3_success, snapshot_success,
                   deleted_snapshots, notified, notif, delivery, retval, created, prune>>

\* lines 310-312: if backup_success: s3_success = upload_to_s3(..)
Snap_Upload ==
    /\ flow = "snapshot" /\ pc = "upload"
    /\ \E s3_ok \in BOOLEAN :
        IF backup_path # None
        THEN LET r == Snap_upload_to_s3(backup_path, local_file, s3_ok)
             IN /\ calls' = Append(calls, <<"upload", TaskOutcome(r)>>)
                /\ s3_success' = r.value /\ s3_object' = r.value
        ELSE UNCHANGED <<calls, s3_success, s3_object>>
    /\ pc' = "snapshot"
    /\ UNCHANGED otherVars
    /\ UNCHANGED callVars
    /\ UNCHANGED fnVars
    /\ UNCHANGED <<flow, exc, running, remote_archive, local_file, webhook_url,
                   instance_snapshots, disk_snapshots, server_was_running,
                   backup_path, local_backup_path, snapshot_success,
                   deleted_snapshots, notified, notif, delivery, retval, created, prune>>

\* lines 315-319: snapshot_success, .. = create_lightsail_snapshots(..)
Snap_Snapshot ==
    /\ flow = "snapshot" /\ pc = "snapshot"
    /\ \E client_ok \in BOOLEAN, inst_ok \in BOOLEAN, disk_ok \in BOOLEAN :
        LET r == create_lightsail_snapshots(client_ok, inst_ok, disk_ok)
        IN /\ calls' = Append(calls, <<"snapshot",
                                   IF r.success THEN "ok" ELSE "fail">>)
           /\ created' = r
           /\ snapshot_success' = r.success
    /\ pc' = "prune"
    /\ UNCHANGED otherVars
    /\ UNCHANGED callVars
    /\ UNCHANGED fnVars
    /\ UNCHANGED <<flow, exc, running, remote_archive, local_file, s3_object,
                   webhook_url, instance_snapshots, disk_snapshots,
                   server_was_running, backup_path, local_backup_path,
                   s3_success, deleted_snapshots, notified, notif, delivery, retval,
                   prune>>

\* the Lightsail calls one cleanup_old_snapshots run can make
MaxApiCalls == 2 + Len(instance_snapshots) + Len(disk_snapshots)

\* lines 322-327: deleted_snapshots = cleanup_old_snapshots(..)
\* fail_at = 0: no Lightsail call raises; otherwise the fail_at-th call does
Snap_Prune ==
    /\ flow = "snapshot" /\ pc = "prune"
    /\ \E fail_at \in 0..MaxApiCalls :
        LET r == cleanup_old_snapshots(instance_snapshots, disk_snapshots,
                                       OwnInstance, OwnDisk, RetentionDays,
                                       fail_at)
        IN /\ calls' = Append(calls, <<"prune",
                                   IF r.failed THEN "fail" ELSE "ok">>)
           /\ prune' = r
           /\ deleted_snapshots' = r.returned
    /\ pc' = "notify"
    /\ UNCHANGED otherVars
    /\ UNCHANGED callVars
    /\ UNCHANGED fnVars
    /\ UNCHANGED <<flow, exc, running, remote_archive, local_file, s3_object,
                   webhook_url, instance_snapshots, disk_snapshots,
                   server_was_running, backup_path, local_backup_path,
                   s3_success, snapshot_success, notified, notif, delivery, retval,
                   created>>

\* lines 330-355: decide status, send_discord_notification, return status
Snap_Notify ==
    /\ flow = "snapshot" /\ pc = "notify"
    /\ \E post \in PostOutcomes :
        LET st == Snap_status(s3_success, snapshot_success)
            r == Snap_send_discord_notification(webhook_url, post)
        IN /\ calls' = Append(calls, <<"notify", TaskOutcome(r)>>)
           /\ notified' = st
           /\ notif' = r
           /\ delivery' = IF Truthy(webhook_url) THEN post ELSE "none"
           /\ pc' = "finally"
           /\ IF r.raised
              THEN exc' = TRUE /\ UNCHANGED retval
              ELSE retval' = st /\ UNCHANGED exc
    /\ UNCHANGED otherVars
    /\ UNCHANGED callVars
    /\ UNCHANGED fnVars
    /\ UNCHANGED <<flow, running, remote_archive, local_file, s3_object,
                   webhook_url, instance_snapshots, disk_snapshots,
                   server_was_running, backup_path, local_backup_path,
                   s3_success, snapshot_success, deleted_snapshots, created,
                   prune>>

\* lines 356-359: finally: if server_was_running: start_minecraft_server()
Snap_Finally ==
    /\ flow = "snapshot" /\ pc = "finally"
    /\ \E docker \in DockerOutcomes :
        IF Snap_finally_start(server_was_running, exc)
        THEN LET r == Snap_start_minecraft_server(docker)
             IN /\ calls' = Append(calls, <<"start", TaskOutcome(r)>>)
                /\ running' = IF docker = "exit0" THEN running \cup {MC}
                              ELSE running
                /\ IF r.raised
                   THEN exc' = TRUE /\ pc' = "raised" /\ retval' = None
                   ELSE /\ pc' = IF exc THEN "raised" ELSE "returned"
                        /\ UNCHANGED <<exc, retval>>
        ELSE /\ pc' = IF exc THEN "raised" ELSE "returned"
             /\ UNCHANGED <<calls, exc, running, retval>>
    /\ UNCHANGED otherVars
    /\ UNCHANGED callVars
    /\ UNCHANGED fnVars
    /\ UNCHANGED <<flow, remote_archive, local_file, s3_object, webhook_url,
                   instance_snapshots, disk_snapshots, server_was_running,
                   backup_path, local_backup_path, s3_success, snapshot_success,
                   deleted_snapshots, notified, notif, delivery, created,
                   prune>>

\* ------------------------------------ cleanup_old_snapshots called on its own
CallCleanupOldSnapshots ==
    /\ flow = "prune" /\ pc = "call"
    /\ \E fail_at \in 0..MaxApiCalls :
        LET r == cleanup_old_snapshots(instance_snapshots, disk_snapshots,
                                       OwnInstance, OwnDisk, RetentionDays,
                                       fail_at)
        IN /\ calls' = Append(calls, <<"prune",
                                   IF r.failed THEN "fail" ELSE "ok">>)
           /\ prune' = r
           /\ deleted_snapshots' = r.returned
    /\ pc' = "returned"
    /\ UNCHANGED otherVars
    /\ UNCHANGED callVars
    /\ UNCHANGED fnVars
    /\ UNCHANGED <<flow, exc, running, remote_archive, local_file, s3_object,
                   webhook_url, instance_snapshots, disk_snapshots,
                   server_was_running, backup_path, local_backup_path,
                   s3_success, snapshot_success, notified, notif, delivery, retval,
                   created>>

\* --------------- server_monitoring_flow (flows/server_monitoring_flow.py)
\* lines 436-444: the availability probe, made in every mode; its answer is
\* only logged
Mon_Health ==
    /\ flow = "monitor" /\ pc = "health"
    /\ \E resp \in HealthResponses :
        /\ calls' = Append(calls, <<"health", IF resp = "200" THEN "ok" ELSE "fail">>)
        /\ api_requests' = Append(api_requests, HealthUrl)
    /\ pc' = "check"
    /\ UNCHANGED <<flow, running, webhook_url, notified, notif, delivery, retval,
                   sim_env, webhook_enabled_env, server_running, metrics,
                   world_size, ccs_args, sock_exists, ccs>>
    /\ UNCHANGED orchLocals
    /\ UNCHANGED callVars
    /\ UNCHANGED fnVars

\* line 453: server_running = check_server_status(api_url, api_key)
Mon_Check ==
    /\ flow = "monitor" /\ pc = "check"
    /\ \E resp \in McResponses :
        LET r == MF_check_server_status(sim_env, resp)
        IN /\ calls' = Append(calls, <<"status",
                     IF r.requests # <<>> /\ resp \in {"exc", "500", "200_badjson"}
                     THEN "fail" ELSE "ok">>)
           /\ server_running' = r.value
           /\ api_requests' = api_requests \o r.requests
    /\ pc' = "metrics"
    /\ UNCHANGED <<flow, running, webhook_url, notified, notif, delivery, retval,
                   sim_env, webhook_enabled_env, metrics, world_size, ccs_args,
                   sock_exists, ccs>>
    /\ UNCHANGED orchLocals
    /\ UNCHANGED callVars
    /\ UNCHANGED fnVars

\* line 458: metrics = get_system_metrics(api_url, api_key)
Mon_Metrics ==
    /\ flow = "monitor" /\ pc = "metrics"
    /\ \E sys_resp \in SysResponses, mc_resp \in McResponses, data \in ApiData :
        LET r == get_system_metrics(sim_env, sys_resp, mc_resp, data)
        IN /\ calls' = Append(calls, <<"metrics",
                     IF ~r.value.error THEN "ok"
                     ELSE IF sys_resp = "500" THEN "http500" ELSE "fail">>)
           /\ metrics' = r.value
           /\ api_requests' = api_requests \o r.requests
    /\ pc' = "world"
    /\ UNCHANGED <<flow, running, webhook_url, notified, notif, delivery, retval,
                   sim_env, webhook_enabled_env, server_running, world_size,
                   ccs_args, sock_exists, ccs>>
    /\ UNCHANGED orchLocals
    /\ UNCHANGED callVars
    /\ UNCHANGED fnVars

\* line 462: world_size = get_world_size(api_url, api_key)
Mon_WorldSize ==
    /\ flow = "monitor" /\ pc = "world"
    /\ \E resp \in SizeResponses :
        LET r == get_world_size(sim_env, resp)
        IN /\ calls' = Append(calls, <<"world_size", "ok">>)
           /\ world_size' = r.value
           /\ api_requests' = api_requests \o r.requests
    /\ pc' = "notify"
    /\ UNCHANGED <<flow, running, webhook_url, notified, notif, delivery, retval,
                   sim_env, webhook_enabled_env, server_running, metrics,
                   ccs_args, sock_exists, ccs>>
    /\ UNCHANGED orchLocals
    /\ UNCHANGED callVars
    /\ UNCHANGED fnVars

\* lines 466-485: send_metrics_to_discord when the webhook is enabled, then
\* return "SUCCESS"; an exception reaching the outer except returns "FAILURE"
Mon_Notify ==
    /\ flow = "monitor" /\ pc = "notify"
    /\ \E post \in PostOutcomes :
        IF WebhookEnabled(webhook_enabled_env)
        THEN LET r == send_metrics_to_discord(webhook_url, post)
             IN /\ calls' = Append(calls, <<"notify", TaskOutcome(r)>>)
                /\ notified' = IF Truthy(webhook_url)
                               THEN Health(metrics.cpu_percent,
                                           metrics.memory_percent,
                                           metrics.root_disk_percent)
                               ELSE None
                /\ notif' = r
                /\ delivery' = IF Truthy(webhook_url) THEN post ELSE "none"
                /\ retval' = IF r.raised THEN "FAILURE" ELSE "SUCCESS"
        ELSE /\ retval' = "SUCCESS"
             /\ UNCHANGED <<calls, notified, notif, delivery>>
    /\ pc' = "returned"
    /\ UNCHANGED <<flow, running, webhook_url, sim_env, webhook_enabled_env,
                   api_requests, server_running, metrics, world_size, ccs_args,
                   sock_exists, ccs>>
    /\ UNCHANGED orchLocals
    /\ UNCHANGED callVars
    /\ UNCHANGED fnVars

\* ----------------------------------- check_container_status called on its own
CallCheckContainerStatus ==
    /\ flow = "status" /\ pc = "call"
    /\ \E d1 \in DockerOutcomes, ssh \in SshOutcomes, d2 \in DockerOutcomes :
        LET r == check_container_status(sim_env, MC, ccs_args.host,
                     ccs_args.user, ccs_args.ssh_config, sock_exists, d1, ssh,
                     d2, DockerPs(running, MC))
        IN /\ GrepExit(ssh, DockerPs(running, MC))
           /\ calls' = Append(calls, <<"status",
                                       IF r.raised THEN "raised" ELSE "ok">>)
           /\ ccs' = r
           /\ ccs_in' = [d1 |-> d1, ssh |-> ssh, d2 |-> d2]
           /\ pc' = IF r.raised THEN "raised" ELSE "returned"
    /\ UNCHANGED <<flow, running, webhook_url, notified, notif, delivery, retval,
                   sim_env, webhook_enabled_env, api_requests, server_running,
                   metrics, world_size, ccs_args, sock_exists>>
    /\ UNCHANGED orchLocals
    /\ UNCHANGED <<ssh_result, executor, results, hangs>>
    /\ UNCHANGED fnVars

\* ------------------------------------------- run_ssh_command called on its own
\* lines 64-73: the ssh client is launched, or launching it raises
SshLaunch ==
    /\ flow = "ssh" /\ pc = "call"
    /\ \E launched \in BOOLEAN :
        IF launched
        THEN /\ pc' = "waiting"
             /\ UNCHANGED <<calls, ssh_result>>
        ELSE LET r == run_ssh_command("nossh", {})
             IN /\ calls' = Append(calls, <<"ssh", "nossh">>)
                /\ ssh_result' = r
                /\ pc' = IF r.raised THEN "raised" ELSE "returned"
    /\ UNCHANGED <<flow, running, webhook_url, notified, notif, delivery, retval>>
    /\ UNCHANGED <<fnVars, orchLocals, otherVars, ccs_in, executor, results, hangs>>

\* lines 68-80: the remote command ends within the timeout
SshComplete ==
    /\ flow = "ssh" /\ pc = "waiting" /\ ~hangs
    /\ \E out \in {"exit255", "exit1", "exit0"} :
        LET r == run_ssh_command(out, DockerPs(running, MC))
        IN /\ GrepExit(out, DockerPs(running, MC))
           /\ calls' = Append(calls, <<"ssh", out>>)
           /\ ssh_result' = r
           /\ pc' = IF r.raised THEN "raised" ELSE "returned"
    /\ UNCHANGED <<flow, running, webhook_url, notified, notif, delivery, retval>>
    /\ UNCHANGED <<fnVars, orchLocals, otherVars, ccs_in, executor, results, hangs>>

\* lines 72, 81-87: timeout=timeout expires, subprocess.run kills the client
\* and raises TimeoutExpired
SshTimeout ==
    /\ flow = "ssh" /\ pc = "waiting"
    /\ LET r == run_ssh_command("timeout", {})
       IN /\ calls' = Append(calls, <<"ssh", "timeout">>)
          /\ ssh_result' = r
          /\ pc' = IF r.raised THEN "raised" ELSE "returned"
    /\ UNCHANGED <<flow, running, webhook_url, notified, notif, delivery, retval>>
    /\ UNCHANGED <<fnVars, orchLocals, otherVars, ccs_in, executor, results, hangs>>

\* ------------------------------- with RemoteExecutor(...) as executor: ...
\* __enter__: when connect() raises the block is not entered and __exit__ is
\* not called
RE_Enter ==
    /\ flow = "session" /\ pc = "enter"
    /\ \E ok \in BOOLEAN :
        LET ex == RE_enter(executor, ok)
        IN /\ executor' = ex
           /\ calls' = Append(calls, <<"enter", IF ex.raised THEN "raised" ELSE "ok">>)
           /\ pc' = IF ex.raised THEN "raised" ELSE "body"
    /\ UNCHANGED <<flow, running, webhook_url, notified, notif, delivery, retval>>
    /\ UNCHANGED <<fnVars, orchLocals, otherVars, ccs_in, ssh_result, results, hangs>>

\* execute_command, lines 55-60: connect if no client is held, then
\* exec_command; when exec_command raises the result is (1, "", str(e))
RE_ExecStart ==
    /\ flow = "session" /\ pc = "body" /\ Len(results) < MaxCommands
    /\ \E ok \in BOOLEAN, sent \in BOOLEAN :
        LET ex == IF ~executor.client THEN RE_connect(executor, ok)
                  ELSE executor
        IN /\ executor' = ex
           /\ IF ex.raised
              THEN /\ pc' = "exit_exception"
                   /\ calls' = Append(calls, <<"exec", "raised">>)
                   /\ UNCHANGED results
              ELSE IF sent
              THEN /\ pc' = "waiting"
                   /\ UNCHANGED <<calls, results>>
              ELSE /\ pc' = "body"
                   /\ calls' = Append(calls, <<"exec", "fail">>)
                   /\ results' = Append(results, RE_execute_command(TRUE, 0))
    /\ UNCHANGED <<flow, running, webhook_url, notified, notif, delivery, retval>>
    /\ UNCHANGED <<fnVars, orchLocals, otherVars, ccs_in, ssh_result, hangs>>

\* execute_command, lines 61-75: recv_exit_status() blocks until the command
\* has ended (exec_command is given no timeout); then the output is read
RE_ExecComplete ==
    /\ flow = "session" /\ pc = "waiting" /\ ~hangs
    /\ \E raised_ \in BOOLEAN, exit_code \in {0, 1} :
        LET r == RE_execute_command(raised_, exit_code)
        IN /\ results' = Append(results, r)
           /\ calls' = Append(calls, <<"exec", IF r = 0 THEN "ok" ELSE "fail">>)
    /\ pc' = "body"
    /\ UNCHANGED <<flow, running, webhook_url, notified, notif, delivery, retval>>
    /\ UNCHANGED <<fnVars, orchLocals, otherVars, ccs_in, ssh_result, executor, hangs>>

\* the body of the block ends: it runs off its end, returns, or raises
RE_BodyEnd ==
    /\ flow = "session" /\ pc = "body"
    /\ \E how \in {"exit_normal", "exit_return", "exit_exception"} : pc' = how
    /\ UNCHANGED <<flow, calls, running, webhook_url, notified, notif, delivery,
                   retval>>
    /\ UNCHANGED <<fnVars, orchLocals, otherVars, callVars>>

\* __exit__ on the way out of the block; it returns None, so an exception
\* of the body goes on propagating
RE_Exit ==
    /\ flow = "session"
    /\ pc \in {"exit_normal", "exit_return", "exit_exception"}
    /\ executor' = RE_exit(executor, pc = "exit_exception")
    /\ calls' = Append(calls, <<"exit", pc>>)
    /\ pc' = IF pc = "exit_exception" THEN "raised" ELSE "returned"
    /\ UNCHANGED <<flow, running, webhook_url, notified, notif, delivery, retval>>
    /\ UNCHANGED <<fnVars, orchLocals, otherVars, ccs_in, ssh_result, results, hangs>>

\* --------------------------------------- the config loaders called on a file
\* both loaders read the file; neither writes it
LoadConfig ==
    /\ flow = "config" /\ pc = "call"
    /\ configs' = Append(configs, [ec2 |-> get_ec2_config(config_file),
                                    chk |-> load_config(config_file)])
    /\ calls' = Append(calls, <<"load", "ok">>)
    /\ pc' = IF Len(configs) + 1 >= MaxLoads THEN "returned" ELSE "call"
    /\ UNCHANGED <<flow, running, webhook_url, notified, notif, delivery, retval>>
    /\ UNCHANGED <<orchLocals, otherVars, callVars>>
    /\ UNCHANGED <<config_file, byte_count, converted, health_in, health>>

\* ------------------------------------ the conversions applied to a byte count
CallConversions ==
    /\ flow = "convert" /\ pc = "call"
    /\ converted' = Conversions(byte_count)
    /\ calls' = Append(calls, <<"convert", "ok">>)
    /\ pc' = "returned"
    /\ UNCHANGED <<flow, running, webhook_url, notified, notif, delivery, retval>>
    /\ UNCHANGED <<orchLocals, otherVars, callVars>>
    /\ UNCHANGED <<config_file, configs, byte_count, health_in, health>>

\* ------------------- send_metrics_to_discord, lines 221-262, called on its own
\* nothing is derived when no webhook URL is given (line 221)
CallHealth ==
    /\ flow = "health" /\ pc = "call"
    /\ health' =
         IF ~Truthy(webhook_url) THEN NoHealth
         ELSE [built |-> TRUE,
               health |-> Health(health_in.cpu, health_in.mem, health_in.disk),
               color |-> Color(health_in.cpu, health_in.mem, health_in.disk),
               server_status |-> IF health_in.server_running
                                 THEN "Running" ELSE "Stopped"]
    /\ calls' = Append(calls, <<"health", "ok">>)
    /\ pc' = "returned"
    /\ UNCHANGED <<flow, running, webhook_url, notified, notif, delivery, retval>>
    /\ UNCHANGED <<orchLocals, otherVars, callVars>>
    /\ UNCHANGED <<config_file, configs, byte_count, converted, health_in>>

\* ------------------------------------------------------------ specification
vars == <<orchVars, otherVars, callVars, fnVars>>

Init == OrchInit /\ OtherInit /\ CallInit /\ FnInit

Next ==
    \/ BF_Check \/ BF_Stop \/ BF_Archive \/ BF_Transfer \/ BF_Upload
    \/ BF_Cleanup \/ BF_Notify \/ BF_Finally
    \/ Snap_Check \/ Snap_Stop \/ Snap_Archive \/ Snap_Upload
    \/ Snap_Snapshot \/ Snap_Prune \/ Snap_Notify \/ Snap_Finally
    \/ CallCleanupOldSnapshots
    \/ Mon_Health \/ Mon_Check \/ Mon_Metrics \/ Mon_WorldSize \/ Mon_Notify
    \/ CallCheckContainerStatus
    \/ SshLaunch \/ SshComplete \/ SshTimeout
    \/ RE_Enter \/ RE_ExecStart \/ RE_ExecComplete \/ RE_BodyEnd \/ RE_Exit
    \/ LoadConfig \/ CallConversions \/ CallHealth

Spec == Init /\ [][Next]_vars

\* The remote command invocations on their own.  Every step such a call can
\* take is eventually taken: a call that can go on does go on, and a timeout
\* that is armed does expire.
CallsInit == Init /\ flow \in {"ssh", "session"}
CallsNext ==
    \/ SshLaunch \/ SshComplete \/ SshTimeout
    \/ RE_Enter \/ RE_ExecStart \/ RE_ExecComplete \/ RE_BodyEnd \/ RE_Exit
FairSpec == CallsInit /\ [][CallsNext]_vars /\ WF_vars(CallsNext)

\* =================================================================== claims
Orchestrator == flow \in {"backup", "snapshot"}
Done == pc \in {"returned", "raised"}
Invoked(step) == \E i \in DOMAIN calls : calls[i][1] = step
TimesInvoked(step) == Cardinality({i \in DOMAIN calls : calls[i][1] = step})
Ended(step, outcome) == \E i \in DOMAIN calls : calls[i] = <<step, outcome>>
\* the status check itself raised: the run ended before the try block
CheckRaised == pc = "raised" /\ Len(calls) = 1
\* no step of the run failed to open its remote session
NoSessionFailure == \A i \in DOMAIN calls : calls[i][2] # "noconn"
Steps == {"check", "stop", "archive", "transfer", "upload", "cleanup_remote",
          "snapshot", "prune", "notify", "start"}

\* C1: in both backup orchestrators, when the status check observed the
\* server running, a run that has returned or propagated an exception has
\* invoked the start step, whichever later step failed and however.
C1_RestartInvariant ==
    (Orchestrator /\ Done /\ server_was_running) => Invoked("start")

\* C1 witness: the transfer raised after the server was stopped, and the
\* start step still ran before the exception left the flow
C1_Witness ==
    /\ flow = "backup" /\ pc = "raised" /\ server_was_running
    /\ Ended("stop", "ok") /\ Ended("transfer", "raised") /\ Invoked("start")

\* C2: when the status check did not observe the server running, neither the
\* stop step nor the start step is ever invoked; and no run invokes the start
\* step more than once.
C2_NoStopStartUnlessRunning ==
    Orchestrator =>
        /\ ~server_was_running => (~Invoked("stop") /\ ~Invoked("start"))
        /\ TimesInvoked("start") <= 1

\* C2 witness: a complete run of the snapshot flow that found the server
\* stopped
C2_Witness ==
    /\ flow = "snapshot" /\ pc = "returned" /\ ~server_was_running
    /\ MC \notin running /\ Invoked("archive") /\ Invoked("notify")

\* C3 (as claimed): in backup_flow (backup_flow.py), once the status check has
\* returned, a remote operation that reports failure never makes the flow
\* raise: the run invokes send_discord_notification and returns a status.
C3_RemoteFailureNeverRaises ==
    (flow = "backup" /\ Done /\ ~CheckRaised /\ NoSessionFailure) =>
        (pc = "returned" /\ Invoked("notify")
         /\ retval \in {"SUCCESS", "FAILURE"})

\* what the run achieved, for the snapshot flow
SnapshotsCreated == created.inst /\ created.disk
ClaimedSnapStatus ==
    IF s3_object /\ SnapshotsCreated THEN "SUCCESS"
    ELSE IF s3_object \/ SnapshotsCreated THEN "PARTIAL SUCCESS"
    ELSE "FAILURE"

\* C4 (as claimed): in the snapshot flow the status notified and returned is
\* SUCCESS exactly when the archive upload and the snapshot creation both
\* succeeded, PARTIAL SUCCESS exactly when exactly one did, FAILURE exactly
\* when neither did.
C4_SnapshotFlowStatus ==
    (flow = "snapshot" /\ pc = "returned") =>
        (notified = ClaimedSnapStatus /\ retval = ClaimedSnapStatus)

\* C5: backup_flow (backup_flow.py) notifies and returns SUCCESS exactly when
\* the archive step returned a path, the transfer returned a local path and
\* the upload returned true; every other run that completes without raising
\* notifies and returns FAILURE.
C5_BackupFlowStatus ==
    LET expected == IF /\ Ended("archive", "ok") /\ Ended("transfer", "ok")
                       /\ Ended("upload", "ok")
                    THEN "SUCCESS" ELSE "FAILURE"
    IN  flow = "backup" =>
            /\ Invoked("notify") => notified = expected
            /\ pc = "returned" => (Invoked("notify") /\ retval = expected)

\* C5 witness: archive and transfer succeeded, the upload returned false, and
\* the run completed
C5_Witness ==
    /\ flow = "backup" /\ pc = "returned" /\ retval = "FAILURE"
    /\ Ended("archive", "ok") /\ Ended("transfer", "ok")
    /\ Ended("upload", "fail")

\* C6 (as claimed): a step's failure is non-fatal; transfer is attempted only
\* if the archive was created, upload only if an archive path is available,
\* the snapshot flow attempts snapshot creation and pruning in every run, and
\* the run reaches the notification step whatever failed.
C6_StepFailureNonFatal ==
    (Orchestrator /\ NoSessionFailure) =>
        /\ Invoked("transfer") => Ended("archive", "ok")
        /\ Invoked("upload") =>
             (Ended("archive", "ok")
              /\ (flow = "backup" => Ended("transfer", "ok")))
        /\ (Done /\ ~CheckRaised) =>
             /\ Invoked("notify")
             /\ flow = "snapshot" => (Invoked("snapshot") /\ Invoked("prune"))

\* the webhook POST was made and failed
DeliveryFailed == delivery \in {"non2xx", "neterr"}

\* what a notifier call leaves as it found it: everything earlier steps did
C7_NothingUndone ==
    /\ UNCHANGED <<remote_archive, local_file, s3_object, created, prune,
                  api_requests, server_running, metrics, world_size,
                  backup_path, local_backup_path, s3_success,
                  snapshot_success, deleted_snapshots>>
    /\ Len(calls') >= Len(calls)
    /\ SubSeq(calls', 1, Len(calls)) = calls

C7_State ==
    /\ ~notif.raised
    /\ DeliveryFailed =>
         /\ notif.value = FALSE
         /\ (pc = "returned" /\ Orchestrator) => retval = notified
         /\ (pc = "returned" /\ flow = "monitor") => retval = "SUCCESS"
    /\ \A step \in Steps : TimesInvoked(step) <= 1

\* C7: a failed webhook delivery is never propagated: the notifier returns
\* False instead of raising, the flow returns the status it would have
\* returned had the delivery succeeded, and neither the notifier call nor
\* anything after a failed delivery undoes or repeats an earlier step (the
\* only step that may follow is the restart).
C7_NotifierFailureContained ==
    /\ []C7_State
    /\ [][(pc = "notify" => C7_NothingUndone)
          /\ (DeliveryFailed =>
                /\ C7_NothingUndone
                /\ running \subseteq running'
                /\ (calls' = calls
                    \/ (Len(calls') = Len(calls) + 1
                        /\ calls'[Len(calls')][1] = "start")))]_vars

\* C7 witness: the webhook answered with an error status and the backup flow
\* returned its status all the same
C7_Witness ==
    /\ flow = "backup" /\ pc = "returned" /\ delivery = "non2xx"
    /\ notif.value = FALSE /\ retval = "FAILURE"

\* the old snapshots of the configured instance and disk in the listings
OldSnapshots ==
    {<<"instance", i>> : i \in {j \in DOMAIN instance_snapshots :
        /\ instance_snapshots[j].from = OwnInstance
        /\ instance_snapshots[j].createdAt < Now - RetentionDays}}
    \cup
    {<<"disk", i>> : i \in {j \in DOMAIN disk_snapshots :
        /\ disk_snapshots[j].from = OwnDisk
        /\ disk_snapshots[j].createdAt < Now - RetentionDays}}

\* C8 (as claimed): cleanup_old_snapshots requests the deletion of a snapshot
\* exactly when it belongs to the configured instance or disk and was
\* created strictly before now - retention_days, each snapshot being decided
\* independently of the others (stated for the calls in which no listing
\* request raised).
C8_PrunesExactlyOldSnapshots ==
    (Invoked("prune") /\ prune.failed_on # "list") =>
        prune.requested = OldSnapshots

\* the simulated-mode flag is set: KRONI_SIMULATED_MODE reads "true" in any
\* letter case
SimulatedFlagSet == sim_env \in {"true", "TRUE"}

\* C9: with the simulated-mode flag set, check_container_status and the
\* monitoring flow's check_server_status return True whatever host, user and
\* ssh_config are, and run no docker command, no remote command and no HTTP
\* request (the monitoring flow has sent nothing but its own availability
\* probe when check_server_status returns).
C9_SimulatedStatusIsRunning ==
    SimulatedFlagSet =>
        /\ (flow = "status" /\ pc # "call") =>
             (~ccs.raised /\ ccs.value = TRUE /\ ccs.ran = <<>>)
        /\ (flow = "monitor" /\ pc = "metrics") =>
             (server_running = TRUE /\ api_requests = <<HealthUrl>>)

\* C9 witness: the flag is set in upper case, the target is a remote host
\* with a complete ssh_config, and the resolver has answered
C9_Witness ==
    /\ flow = "status" /\ pc = "returned" /\ sim_env = "TRUE"
    /\ ccs_args.ssh_config.EC2_HOST = "remote"
    /\ ccs_args.ssh_config.SSH_USER = "ec2-user"
    /\ MC \notin running
    /\ ccs.value = TRUE

\* the canned values of simulated mode were obtained
CannedValues ==
    /\ server_running = TRUE
    /\ metrics = SimulatedMetrics
    /\ world_size = DefaultWorldSize

\* C10 (as claimed): with the flag set a complete run of
\* server_monitoring_flow obtains status, metrics and world size as canned
\* values and sends no request at all to the metrics API.
C10_SimulatedRunNoRequests ==
    (flow = "monitor" /\ pc = "returned" /\ SimulatedFlagSet) =>
        (CannedValues /\ api_requests = <<>>)

\* C10 (amended): with the flag set a complete run obtains status, metrics
\* and world size as canned values, and the only request it sends to the
\* metrics API is the availability probe GET /api/v1/health at its start.
C10_SimulatedRunOnlyProbes ==
    (flow = "monitor" /\ SimulatedFlagSet) =>
        /\ pc # "health" => api_requests = <<HealthUrl>>
        /\ pc = "returned" => CannedValues

\* C10 witness: a complete simulated run
C10_Witness ==
    /\ flow = "monitor" /\ pc = "returned" /\ sim_env = "true"
    /\ metrics.source = "simulated" /\ api_requests = <<HealthUrl>>

\* ---------------------------------------------- container status resolver
\* check_container_status has answered outside simulated mode
Resolved == flow = "status" /\ pc = "returned" /\ ~SimulatedFlagSet
Ran(cmd) == \E i \in DOMAIN ccs.ran : ccs.ran[i] = cmd
\* the docker command run before any ssh attempt (lines 125 or 214)
RanFirstDocker == ccs.ran # <<>> /\ ccs.ran[1] = "docker"
\* the docker command of the fallback (line 179)
RanFallbackDocker == Len(ccs.ran) >= 2 /\ ccs.ran[Len(ccs.ran)] = "docker"
\* some detection path gave an answer: a docker listing with exit code 0, or
\* the remote grep ran to its end
Conclusive ==
    \/ RanFirstDocker /\ Len(ccs.ran) = 1 /\ ccs_in.d1 = "exit0"
    \/ Ran("ssh") /\ ccs_in.ssh \in {"exit0", "exit1"}
    \/ RanFallbackDocker /\ ccs_in.d2 = "exit0"

\* C11 (as claimed): whenever every detection path is inconclusive (the local
\* docker command fails or raises, the remote parameters are incomplete, the
\* remote command cannot be run, the metrics API is unreachable or answers
\* non-200) the resolver returns True: check_container_status when it has
\* answered, and the monitoring flow's check_server_status.
C11_InconclusiveMeansRunning ==
    /\ (Resolved /\ ~Conclusive) => ccs.value = TRUE
    /\ (flow = "monitor" /\ Ended("status", "fail")) => server_running = TRUE

\* C12 (as claimed): a call of check_container_status whose ssh_config has
\* an empty EC2_HOST runs the local docker check and never the remote
\* command, whatever host and user are.
C12_EmptyHostChecksLocally ==
    (Resolved /\ ccs_args.ssh_config.given
              /\ ccs_args.ssh_config.EC2_HOST = "") =>
        (Ran("docker") /\ ~Ran("ssh"))

\* C13: when the remote command failed because the ssh client is missing,
\* check_container_status runs the local docker check exactly when the
\* docker socket exists, although the target is remote; it returns whether
\* the container is listed when that check ends with exit code 0, and True
\* in every other case (socket absent, non-zero exit, exception).
C13_SshMissingFallback ==
    (flow = "status" /\ pc # "call" /\ Ran("ssh") /\ ccs_in.ssh = "nossh") =>
        /\ ~ccs.raised
        /\ RanFallbackDocker <=> sock_exists
        /\ ccs.value = IF sock_exists /\ ccs_in.d2 = "exit0"
                       THEN MC \in running ELSE TRUE

\* C13 witness: the ssh client is missing, the socket exists, the fallback
\* docker command fails while the container is not running, and the
\* resolver has answered True
C13_Witness ==
    /\ flow = "status" /\ pc = "returned" /\ ccs_in.ssh = "nossh"
    /\ ccs.ran = <<"ssh", "docker">> /\ ccs_in.d2 = "exit1"
    /\ ccs_args.ssh_config.EC2_HOST = "remote"
    /\ MC \notin running /\ ccs.value = TRUE

\* C14 (as claimed): on every detection path the container is reported
\* running only if a container named exactly as requested is running:
\* check_container_status when one of its paths gave an answer, and
\* RemoteExecutor.check_docker_container as the backup flow calls it.
C14_ExactNameMatch ==
    /\ (Resolved /\ Conclusive /\ ccs.value) => MC \in running
    /\ (flow = "backup" /\ pc = "stop" /\ server_was_running) => MC \in running

\* C15: run_ssh_command never raises: whatever the ssh subprocess does it
\* returns a result whose success flag is true exactly when the exit code is
\* 0, and when the timeout expired or the launch failed the result has exit
\* code -1, empty stdout and success false.
C15_RunSshCommandNeverRaises ==
    (flow = "ssh" /\ pc \notin {"call", "waiting"}) =>
        /\ pc = "returned" /\ ~ssh_result.raised
        /\ ssh_result.success <=> ssh_result.returncode = 0
        /\ ssh_result.success <=> Ended("ssh", "exit0")
        /\ (Ended("ssh", "timeout") \/ Ended("ssh", "nossh")) =>
             /\ ssh_result.returncode = -1
             /\ ssh_result.stdout = {}
             /\ ~ssh_result.success

\* C15 witness: the remote command never completed and the call has ended
\* on the expiry of its timeout
C15_Witness ==
    /\ flow = "ssh" /\ hangs /\ Ended("ssh", "timeout")
    /\ ssh_result.returncode = -1

\* C16 (as claimed): check_container_status never raises: for every
\* combination of host, user and ssh_config, each present or absent, and
\* every outcome of the docker and ssh commands, it returns a boolean.
C16_ResolverNeverRaises ==
    (flow = "status" /\ pc # "call") => (pc = "returned" /\ ~ccs.raised)

\* ------------------------------------------------------- RemoteExecutor
\* C17: a session opened by RemoteExecutor in a with-block is closed on
\* every way out of the block (running off its end, an early return, an
\* exception raised inside): after the block the executor holds no client
\* and no open session, and at no time has it more than one session open.
C17_SessionReleased ==
    flow = "session" =>
        /\ executor.open <= 1
        /\ executor.client <=> executor.open = 1
        /\ Done => (~executor.client /\ executor.open = 0)

\* C17 witness: a command was run in the block, the block was left by an
\* exception, and the session is closed
C17_Witness ==
    /\ flow = "session" /\ pc = "raised"
    /\ Invoked("exec") /\ Ended("exit", "exit_exception")
    /\ executor.open = 0

\* C18 (as claimed): every remote command invocation, through
\* run_ssh_command or through RemoteExecutor.execute_command, eventually
\* returns to its caller, even when the remote command never completes.
C18_RemoteCommandReturns == (pc = "waiting") ~> (pc # "waiting")

\* ------------------------------------------------------- monitoring flow
\* the run reports what a run with healthy metrics reports: it returns
\* "SUCCESS" and the health in its notification is "Good"
ReportsHealthy == retval = "SUCCESS" /\ notified = "Good"

\* C19 (as claimed): when the metrics API answers HTTP 500 for
\* /api/v1/system/metrics, get_system_metrics returns the default schema
\* (every system field zero, the error field populated) without raising, the
\* run reaches the notifier when notifications are enabled and completes,
\* and what a completed run with a webhook reports is not what a run with
\* healthy metrics reports.
C19_DegradedMetricsReported ==
    (flow = "monitor" /\ Ended("metrics", "http500")) =>
        /\ metrics = DefaultMetrics
        /\ pc \in {"world", "notify", "returned"}
        /\ pc = "returned" =>
             /\ WebhookEnabled(webhook_enabled_env) => Invoked("notify")
             /\ (Invoked("notify") /\ Truthy(webhook_url)) => ~ReportsHealthy

\* ------------------------------------------- backup_flow (backup_flow.py)
\* C20 (as claimed): every run of backup_flow that created an archive on
\* the remote host has removed it when the run ends, on every path
\* (transfer failed, upload failed, all succeeded); stated for the runs
\* in which every remote session could be opened and the removal, if
\* attempted, did not itself fail.
C20_RemoteArchiveRemoved ==
    (flow = "backup" /\ Done /\ Ended("archive", "ok") /\ NoSessionFailure
                     /\ ~Ended("cleanup_remote", "fail")) =>
        ~remote_archive

\* the place of a step in backup_flow's sequence
\* CheckRunning, Stop, Archive, Transfer, Upload, CleanupRemote, (notify,)
\* Restart
StepRank(step) ==
    CASE step = "check" -> 1
      [] step = "stop" -> 2
      [] step = "archive" -> 3
      [] step = "transfer" -> 4
      [] step = "upload" -> 5
      [] step = "cleanup_remote" -> 6
      [] step = "notify" -> 7
      [] step = "start" -> 8
      [] OTHER -> 0

\* C21: within one run of backup_flow (backup_flow.py) the steps that are
\* executed are executed in the order status check, stop, archive, transfer,
\* upload, remote cleanup, restart, each after the previous one has ended,
\* and none is executed twice; stop and restart only when the server was
\* observed running.
C21_StrictStepOrder ==
    flow = "backup" =>
        /\ \A i, j \in DOMAIN calls :
             i < j => (0 < StepRank(calls[i][1])
                       /\ StepRank(calls[i][1]) < StepRank(calls[j][1]))
        /\ (Invoked("stop") \/ Invoked("start")) => server_was_running

\* C21 witness: a run in which all seven steps were executed
C21_Witness ==
    /\ flow = "backup" /\ pc = "returned"
    /\ \A st \in {"check", "stop", "archive", "transfer", "upload",
                   "cleanup_remote", "start"} : Invoked(st)

\* -------------------------------------------------------- config loaders
\* a blank line or a comment line, as the loaders see it after strip()
BlankOrComment(l) == Strip(l) = <<>> \/ Head(Strip(l)) = "#"
NotBlankOrComment(l) == ~BlankOrComment(l)
\* the KEY=VALUE lines of the file, stripped
KeyValueLines ==
    {Strip(config_file.lines[i]) : i \in
        {j \in DOMAIN config_file.lines :
            NotBlankOrComment(config_file.lines[j])
            /\ HasEq(config_file.lines[j])}}
\* the file without its blank and comment lines
WithoutBlankAndComment ==
    [config_file EXCEPT !.lines = SelectSeq(config_file.lines, NotBlankOrComment)]
\* position i of line l is its first = sign
FirstEqAt(l, i) == l[i] = "=" /\ \A j \in 1..(i - 1) : l[j] # "="
\* every entry of the mapping m comes from a KEY=VALUE line split at its
\* first = sign, and every such line gives an entry; strip_kv as in LoadLines
SplitAtFirstEq(m, strip_kv) ==
    /\ \A p \in m : \E l \in KeyValueLines : \E i \in DOMAIN l :
          /\ FirstEqAt(l, i)
          /\ p[1] = IF strip_kv THEN Strip(SubSeq(l, 1, i - 1))
                    ELSE SubSeq(l, 1, i - 1)
          /\ p[2] = IF strip_kv THEN Strip(SubSeq(l, i + 1, Len(l)))
                    ELSE SubSeq(l, i + 1, Len(l))
    /\ \A l \in KeyValueLines : \E i \in DOMAIN l : \E p \in m :
          /\ FirstEqAt(l, i)
          /\ p[1] = IF strip_kv THEN Strip(SubSeq(l, 1, i - 1))
                    ELSE SubSeq(l, 1, i - 1)
    /\ \A p, q \in m : p[1] = q[1] => p = q

\* C22: calling a config loader twice on an unchanged file yields identical
\* mappings, and the mapping depends only on the KEY=VALUE lines: blank
\* lines and lines starting with # contribute nothing, and every remaining
\* line is split at its first = sign (get_ec2_config of server_utils.py and
\* load_config of config_check.py).
C22_ConfigLoaderIdempotent ==
    (flow = "config" /\ configs # <<>>) =>
        /\ \A i \in DOMAIN configs : configs[i] = configs[1]
        /\ configs[1].ec2 = get_ec2_config(WithoutBlankAndComment)
        /\ configs[1].chk = load_config(WithoutBlankAndComment)
        /\ SplitAtFirstEq(configs[1].ec2, FALSE)
        /\ SplitAtFirstEq(configs[1].chk, TRUE)

\* C22 witness: a file with a comment line and a pair whose value contains
\* an = sign has been loaded twice
C22_Witness ==
    /\ flow = "config" /\ Len(configs) = 2
    /\ config_file.lines = << <<"#", "K", "=", "V">>,
                              <<"K", "=", "V", "=", "x">> >>
    /\ configs[2].ec2 = {<< <<"K">>, <<"V", "=", "x">> >>}

\* ------------------------------------------------------- unit conversions
\* h hundredths is b / d rounded to 2 decimals: no hundredth is nearer
RoundedTo2(h, b, d) ==
    LET diff == 100 * b - h * d
    IN -(d \div 2) <= diff /\ diff <= d \div 2

\* C23: for every byte count B the collector's MB field equals B / 1048576
\* rounded to 2 decimals and its GB fields, the directory size included,
\* equal B / 1073741824 rounded to 2 decimals.
C23_BinaryUnits ==
    (flow = "convert" /\ pc = "returned") =>
        /\ RoundedTo2(converted.memory_mb, byte_count, 1048576)
        /\ RoundedTo2(converted.root_disk_gb, byte_count, 1073741824)
        /\ RoundedTo2(converted.directory_gb, byte_count, 1073741824)

\* C23 witness: 5368710 bytes were converted to 5.12 MB and 0.01 GB
C23_Witness ==
    /\ flow = "convert" /\ pc = "returned" /\ byte_count = 5368710
    /\ converted.memory_mb = 512 /\ converted.root_disk_gb = 1

\* -------------------------------------------------- health classification
\* one of the three percentages is strictly above t tenths of a percent
SomeAbove(t) == health_in.cpu > t \/ health_in.mem > t \/ health_in.disk > t

\* C30: send_metrics_to_discord classifies health from the cpu, memory and
\* root disk percentages alone: Critical (red) exactly when one is strictly
\* above 90, otherwise Warning (yellow) exactly when one is strictly above
\* 70, otherwise Good (green); exactly 90 is not Critical, exactly 70 is
\* not Warning, and the server's running state plays no part.
C30_HealthThresholds ==
    (flow = "health" /\ pc = "returned" /\ health.built) =>
        /\ health.health = IF SomeAbove(900) THEN "Critical"
                           ELSE IF SomeAbove(700) THEN "Warning" ELSE "Good"
        /\ health.color = IF SomeAbove(900) THEN 15548997
                          ELSE IF SomeAbove(700) THEN 16776960 ELSE 5763719

\* C30 witness: the highest percentage is exactly 90 while the server is
\* stopped, and the health derived is Warning
C30_Witness ==
    /\ flow = "health" /\ pc = "returned" /\ health.built
    /\ health_in.cpu = 900 /\ health_in.mem = 700 /\ health_in.disk = 0
    /\ ~health_in.server_running
    /\ health.health = "Warning"

\* ------------------------------------------------------------------ C24
\* C24 (as claimed): in both orchestrators, when the server was observed
\* running at entry, archive creation starts only after the stop step has
\* succeeded.
C24_ArchiveOnlyWhenStopped ==
    (Orchestrator /\ server_was_running /\ Invoked("archive"))
        => Ended("stop", "ok")

\* ------------------------------------------------------------------ C25
\* no orchestrator run notifies or returns SUCCESS
NeverSuccess ==
    Orchestrator => (notified # "SUCCESS" /\ retval # "SUCCESS")

\* ------------------------------------------------------------------ C26
\* C26 (as claimed): in both orchestrators, whenever the upload step is
\* attempted, the local archive file named by the path handed to it exists.
C26_LocalArchiveExistsAtUpload ==
    (Orchestrator /\ Invoked("upload")) => local_file

\* ------------------------------------------------------------------ C27
\* C27 (as claimed): create_lightsail_snapshots makes no more than one
\* creation request for the disk snapshot per call and returns success exactly
\* when both the instance snapshot and the disk snapshot were created.
C27_SnapshotRequestsAndResult ==
    (flow = "snapshot" /\ Invoked("snapshot"))
        => /\ created.success <=> (created.inst /\ created.disk)
           /\ created.disk_calls <= 1

\* ------------------------------------------------------------------ C28
\* C28 (as claimed): a run of the snapshot flow requests the deletion of
\* existing snapshots only if it created the new instance snapshot and the
\* new disk snapshot in the same run.
C28_PruneOnlyAfterCreation ==
    (flow = "snapshot" /\ prune.requested # {})
        => (created.inst /\ created.disk)

\* ------------------------------------------------------------------ C29
\* the delete requests of one cleanup_old_snapshots call that did not raise
AcceptedDeletes ==
    Cardinality(prune.requested) - (IF prune.failed_on = "delete" THEN 1 ELSE 0)

\* C29 (as claimed): the count returned by cleanup_old_snapshots equals the
\* number of snapshots whose deletion was requested (and accepted) during the
\* call, also when a list or delete request fails part-way through.
C29_ReturnedCountIsRequested ==
    (flow \in {"prune", "snapshot"} /\ Invoked("prune"))
        => /\ prune.returned = AcceptedDeletes
           /\ deleted_snapshots = prune.returned

====
